---- MODULE Spec2Model ----
(***************************************************************************)
(* librus-rs: the authenticated session and request layer of src/lib.rs.   *)
(* One caller constructs a Client (Client::new, Client::from_env or        *)
(* ClientBuilder::build), which runs the login handshake, and then calls   *)
(* accessors on it one after another.  Every await on the HTTP transport   *)
(* is two steps: the request is dispatched, and later its outcome arrives. *)
(***************************************************************************)
EXTENDS Integers, Sequences, FiniteSets, TLC

VARIABLES
    pc,                    \* position of the caller in the running call
    op,                    \* the public function that is running, or ran last
    env,                   \* the environment in which from_env found a variable missing
    builder,               \* ClientBuilder { username, password }: Option as a set; build moves them out
    nset,                  \* setter calls made on the builder that is being filled
    creds,                 \* the (username, password) arguments of authenticate
    http,                  \* whether the cookie-storing HttpClient has been built
    client,                \* whether a Client value has been returned to the caller
    messages_initialized,  \* Client.messages_initialized
    step,                  \* the handshake request authenticate is at (1..4)
    inflight,              \* requests dispatched whose outcome has not arrived
    reqs,                  \* the requests dispatched by the running (or last) call, in order
    recv,                  \* outcome of the last accessor request, as the transport delivered it
    result,                \* what the last finished call returned
    ncalls,                \* accessor calls started on the client
    boots,                 \* bootstrap requests dispatched on the client
    booted,                \* bootstrap requests of the client that were answered
    call,                  \* the content transform that is applied, if one is
    content,               \* its argument, as the code points of the &str
    out,                   \* what it returned, once it has
    tasks                  \* the calls of the tasks that share one client, task by task

\* The variables of a call of a content transform (an associated function
\* without self: it neither reads nor writes the session).
transform == <<call, content, out>>

vars == <<pc, op, env, builder, nset, creds, http, client, messages_initialized, step,
          inflight, reqs, recv, result, ncalls, boots, booted, call, content, out, tasks>>

(***************************************************************************)
(* Bounds                                                                  *)
(***************************************************************************)
MaxBodyLen == 2    \* longest response body drawn from the byte alphabet
MaxCalls == 3      \* accessor calls made on one client
MaxSetters == 2    \* setter calls made on one builder

(***************************************************************************)
(* Inputs the environment chooses                                          *)
(***************************************************************************)
\* Bytes of a response body: '[' , ']' and 0xFF, which is never valid UTF-8.
Bytes == {91, 93, 255}

RECURSIVE SeqsUpTo(_, _)
SeqsUpTo(S, n) ==
    IF n = 0 THEN {<<>>}
    ELSE LET shorter == SeqsUpTo(S, n - 1)
         IN  shorter \cup {Append(s, b) : s \in {t \in shorter : Len(t) = n - 1}, b \in S}

\* The JSON document [[],null,""] as bytes.
HomeworksDoc == <<91, 91, 93, 44, 110, 117, 108, 108, 44, 34, 34, 93>>
\* The JSON document [[]] as bytes.
InboxDoc == <<91, 91, 93, 93>>

Bodies == SeqsUpTo(Bytes, MaxBodyLen) \cup {HomeworksDoc}

Statuses == {200, 204, 404, 500}

Credentials == {"", "jan"}

(***************************************************************************)
(* Constants of lib.rs                                                     *)
(***************************************************************************)
SYNERGIA_API_BASE == [host |-> "synergia.librus.pl", path |-> "/gateway/api/2.0/"]
MESSAGES_API_BASE == [host |-> "wiadomosci.librus.pl", path |-> "/api/"]
AUTH_URL == [host |-> "api.librus.pl", path |-> "/OAuth/Authorization?client_id=46"]
AUTH_TEST_URL ==
    [host |-> "api.librus.pl",
     path |-> "/OAuth/Authorization?client_id=46&response_type=code&scope=mydata"]
AUTH_GRANT_URL == [host |-> "api.librus.pl", path |-> "/OAuth/Authorization/Grant?client_id=46"]
TOKEN_INFO_URL == [host |-> "synergia.librus.pl", path |-> "/gateway/api/2.0/Auth/TokenInfo/"]
MESSAGES_INIT_URL == [host |-> "synergia.librus.pl", path |-> "/wiadomosci3"]

(***************************************************************************)
(* Values                                                                  *)
(***************************************************************************)
\* A request: method, absolute URL (base and endpoint), headers and form.
Request(method, base, endpoint, headers, form) ==
    [method |-> method, host |-> base.host, path |-> <<base.path, endpoint>>,
     headers |-> headers, form |-> form]

Get(url) == Request("GET", url, "", {}, <<>>)

\* Result<T, Error>: Ok carries body (the value's source), Err has a kind.
NoResult == [tag |-> "none", kind |-> "", name |-> "", status |-> 0, body |-> <<>>]
Ok(body) == [tag |-> "Ok", kind |-> "", name |-> "", status |-> 0, body |-> body]
Err(kind, name, status, body) ==
    [tag |-> "Err", kind |-> kind, name |-> name, status |-> status, body |-> body]

Authentication == Err("Authentication", "", 0, <<>>)
MissingEnvVar(name) == Err("MissingEnvVar", name, 0, <<>>)
MissingCredentials(name) == Err("MissingCredentials", name, 0, <<>>)
HttpClientError == Err("HttpClient", "", 0, <<>>)
RequestError == Err("Request", "", 0, <<>>)
ApiError(status, body) == Err("ApiError", "", status, body)
ParseError(body) == Err("Parse", "", 0, body)

NoRecv == [outcome |-> "none", status |-> 0, body |-> <<>>]

\* Return values of the content transforms: Option<String> and String, a
\* String being the sequence of the bytes of its UTF-8 encoding.
Pending == [tag |-> "pending", value |-> <<>>]
None == [tag |-> "None", value |-> <<>>]
Some(s) == [tag |-> "Some", value |-> s]
String(s) == [tag |-> "String", value |-> s]

\* The tasks that may hold a reference to one client, and a task that is
\* in no call.
Tasks == {1, 2}
NoTasks == [t \in Tasks |-> [pc |-> "idle", op |-> "none", calls |-> 0, result |-> "none"]]

(***************************************************************************)
(* Initial state: nothing constructed yet.                                  *)
(***************************************************************************)
Option(S) == {{}} \cup {{s} : s \in S}

Environments == [{"LIBRUS_USERNAME", "LIBRUS_PASSWORD"} -> Option(Credentials)]
NoEnv == [v \in {"LIBRUS_USERNAME", "LIBRUS_PASSWORD"} |-> {}]

Init ==
    /\ pc = "start"
    /\ op = "none"
    /\ env = NoEnv
    /\ builder = [username |-> {}, password |-> {}]
    /\ nset = 0
    /\ creds = <<>>
    /\ http = FALSE
    /\ client = FALSE
    /\ messages_initialized = FALSE
    /\ step = 0
    /\ inflight = {}
    /\ reqs = <<>>
    /\ recv = NoRecv
    /\ result = NoResult
    /\ ncalls = 0
    /\ boots = 0
    /\ booted = 0
    /\ call = "none"
    /\ content = <<>>
    /\ out = Pending
    /\ tasks = NoTasks


(***************************************************************************)
(* The transport.  send() either fails or delivers a response with a       *)
(* status; reading the body of a delivered response can fail as well.      *)
(***************************************************************************)
Outcomes ==
    {[outcome |-> "send_error", status |-> 0, body |-> <<>>]}
    \cup {[outcome |-> "response", status |-> s, body |-> b] : s \in Statuses, b \in Bodies}
    \cup {[outcome |-> "body_error", status |-> s, body |-> <<>>] : s \in Statuses}

\* http.get(..).send(): the request leaves and the caller awaits its outcome.
Dispatch(req) ==
    /\ inflight' = inflight \cup {req}
    /\ reqs' = Append(reqs, [req |-> req, state |-> "pending", status |-> 0])

\* The outcome o of the awaited request req arrives.
Settle(req, o) ==
    /\ inflight' = inflight \ {req}
    /\ reqs' = [reqs EXCEPT ![Len(reqs)] =
                  IF o.outcome = "send_error"
                  THEN [@ EXCEPT !.state = "failed"]
                  ELSE [@ EXCEPT !.state = "answered", !.status = o.status]]

LastReq == reqs[Len(reqs)].req

(***************************************************************************)
(* Credential sources (lib.rs 188-255, 312-339)                            *)
(***************************************************************************)
\* A call returns r to the caller and ends.
Return(r, next) ==
    /\ result' = r
    /\ pc' = next

\* Mutant: an empty username or password is refused before the handshake.
Client_new_RejectsEmpty(u, p) ==
    /\ pc = "start"
    /\ UNCHANGED <<transform, tasks>>
    /\ op' = "new"
    /\ IF u = "" \/ p = ""
       THEN Return(MissingCredentials(IF u = "" THEN "username" ELSE "password"), "failed")
            /\ UNCHANGED creds
       ELSE /\ creds' = <<u, p>>
            /\ pc' = "auth_http"
            /\ UNCHANGED result
    /\ UNCHANGED <<env, builder, nset, http, client, messages_initialized, step,
                   inflight, reqs, recv, ncalls, boots, booted>>

\* Client::new(username, password)
Client_new(u, p) ==
    /\ pc = "start"
    /\ UNCHANGED <<transform, tasks>>
    /\ op' = "new"
    /\ creds' = <<u, p>>
    /\ pc' = "auth_http"
    /\ UNCHANGED <<env, builder, nset, http, client, messages_initialized, step,
                   inflight, reqs, recv, result, ncalls, boots, booted>>

\* Mutant: the first handshake request is sent before the variables are read.
Client_from_env_RequestsFirst(e) ==
    /\ pc = "start"
    /\ UNCHANGED <<transform, tasks>>
    /\ op' = "from_env"
    /\ IF e["LIBRUS_USERNAME"] = {} \/ e["LIBRUS_PASSWORD"] = {}
       THEN /\ Return(MissingEnvVar(IF e["LIBRUS_USERNAME"] = {}
                                    THEN "LIBRUS_USERNAME" ELSE "LIBRUS_PASSWORD"), "failed")
            /\ env' = e
            /\ Dispatch(Get(AUTH_TEST_URL))
            /\ UNCHANGED creds
       ELSE /\ creds' = <<CHOOSE u \in e["LIBRUS_USERNAME"] : TRUE,
                          CHOOSE p \in e["LIBRUS_PASSWORD"] : TRUE>>
            /\ pc' = "auth_http"
            /\ UNCHANGED <<result, env, inflight, reqs>>
    /\ UNCHANGED <<builder, nset, http, client, messages_initialized, step,
                   recv, ncalls, boots, booted>>

\* Mutant: LIBRUS_PASSWORD is looked up before LIBRUS_USERNAME.
Client_from_env_PasswordFirst(e) ==
    /\ pc = "start"
    /\ UNCHANGED <<transform, tasks>>
    /\ op' = "from_env"
    /\ IF e["LIBRUS_PASSWORD"] = {}
       THEN Return(MissingEnvVar("LIBRUS_PASSWORD"), "failed")
            /\ env' = e /\ UNCHANGED creds
       ELSE IF e["LIBRUS_USERNAME"] = {}
       THEN Return(MissingEnvVar("LIBRUS_USERNAME"), "failed")
            /\ env' = e /\ UNCHANGED creds
       ELSE /\ creds' = <<CHOOSE u \in e["LIBRUS_USERNAME"] : TRUE,
                          CHOOSE p \in e["LIBRUS_PASSWORD"] : TRUE>>
            /\ pc' = "auth_http"
            /\ UNCHANGED <<result, env>>
    /\ UNCHANGED <<builder, nset, http, client, messages_initialized, step,
                   inflight, reqs, recv, ncalls, boots, booted>>

\* Client::from_env() in the environment e
Client_from_env(e) ==
    /\ pc = "start"
    /\ UNCHANGED <<transform, tasks>>
    /\ op' = "from_env"
    /\ IF e["LIBRUS_USERNAME"] = {}
       THEN Return(MissingEnvVar("LIBRUS_USERNAME"), "failed")
            /\ env' = e /\ UNCHANGED creds
       ELSE IF e["LIBRUS_PASSWORD"] = {}
       THEN Return(MissingEnvVar("LIBRUS_PASSWORD"), "failed")
            /\ env' = e /\ UNCHANGED creds
       ELSE /\ creds' = <<CHOOSE u \in e["LIBRUS_USERNAME"] : TRUE,
                          CHOOSE p \in e["LIBRUS_PASSWORD"] : TRUE>>
            /\ pc' = "auth_http"
            /\ UNCHANGED <<result, env>>
    /\ UNCHANGED <<builder, nset, http, client, messages_initialized, step,
                   inflight, reqs, recv, ncalls, boots, booted>>

\* Client::builder() / ClientBuilder::new()
Client_builder ==
    /\ pc = "start"
    /\ UNCHANGED <<transform, tasks>>
    /\ op' = "build"
    /\ builder' = [username |-> {}, password |-> {}]
    /\ pc' = "builder"
    /\ UNCHANGED <<env, nset, creds, http, client, messages_initialized, step,
                   inflight, reqs, recv, result, ncalls, boots, booted>>

\* ClientBuilder::username(u)
ClientBuilder_username(u) ==
    /\ pc = "builder"
    /\ UNCHANGED <<transform, tasks>>
    /\ nset < MaxSetters
    /\ nset' = nset + 1
    /\ builder' = [builder EXCEPT !.username = {u}]
    /\ UNCHANGED <<pc, op, env, creds, http, client, messages_initialized, step,
                   inflight, reqs, recv, result, ncalls, boots, booted>>

\* ClientBuilder::password(p)
ClientBuilder_password(p) ==
    /\ pc = "builder"
    /\ UNCHANGED <<transform, tasks>>
    /\ nset < MaxSetters
    /\ nset' = nset + 1
    /\ builder' = [builder EXCEPT !.password = {p}]
    /\ UNCHANGED <<pc, op, env, creds, http, client, messages_initialized, step,
                   inflight, reqs, recv, result, ncalls, boots, booted>>

\* Mutant: the password field is taken out of the builder first.
ClientBuilder_build_PasswordFirst ==
    /\ pc = "builder"
    /\ UNCHANGED <<transform, tasks>>
    /\ IF builder.password = {}
       THEN Return(MissingCredentials("password"), "failed")
            /\ UNCHANGED <<creds, builder, nset>>
       ELSE IF builder.username = {}
       THEN Return(MissingCredentials("username"), "failed")
            /\ UNCHANGED <<creds, builder, nset>>
       ELSE /\ creds' = <<CHOOSE u \in builder.username : TRUE,
                          CHOOSE p \in builder.password : TRUE>>
            /\ builder' = [username |-> {}, password |-> {}]
            /\ nset' = 0
            /\ pc' = "auth_http"
            /\ UNCHANGED result
    /\ UNCHANGED <<op, env, http, client, messages_initialized, step,
                   inflight, reqs, recv, ncalls, boots, booted>>

\* ClientBuilder::build()
ClientBuilder_build ==
    /\ pc = "builder"
    /\ UNCHANGED <<transform, tasks>>
    /\ IF builder.username = {}
       THEN Return(MissingCredentials("username"), "failed")
            /\ UNCHANGED <<creds, builder, nset>>
       ELSE IF builder.password = {}
       THEN Return(MissingCredentials("password"), "failed")
            /\ UNCHANGED <<creds, builder, nset>>
       ELSE /\ creds' = <<CHOOSE u \in builder.username : TRUE,
                          CHOOSE p \in builder.password : TRUE>>
            /\ builder' = [username |-> {}, password |-> {}]
            /\ nset' = 0
            /\ pc' = "auth_http"
            /\ UNCHANGED result
    /\ UNCHANGED <<op, env, http, client, messages_initialized, step,
                   inflight, reqs, recv, ncalls, boots, booted>>

(***************************************************************************)
(* Client::authenticate (lib.rs 361-399)                                   *)
(***************************************************************************)
\* let form_params = [("action", "login"), ("login", username), ("pass", password)]
form_params(username, password) ==
    << <<"action", "login">>, <<"login", username>>, <<"pass", password>> >>

\* Mutant: the grant request is made before the login form is posted.
HandshakeRequest_Reordered(k, username, password) ==
    CASE k = 1 -> Get(AUTH_TEST_URL)
      [] k = 2 -> Get(AUTH_GRANT_URL)
      [] k = 3 -> Request("POST", AUTH_URL, "", {}, form_params(username, password))
      [] k = 4 -> Get(TOKEN_INFO_URL)

\* Mutant: the grant request repeats the password in a header.
HandshakeRequest_PasswordInGrant(k, username, password) ==
    CASE k = 1 -> Get(AUTH_TEST_URL)
      [] k = 2 -> Request("POST", AUTH_URL, "", {}, form_params(username, password))
      [] k = 3 -> Request("GET", AUTH_GRANT_URL, "", {<<"Authorization", password>>}, <<>>)
      [] k = 4 -> Get(TOKEN_INFO_URL)

\* Mutant: the token check is made on the host of the three OAuth requests.
HandshakeRequest_OneHost(k, username, password) ==
    CASE k = 1 -> Get(AUTH_TEST_URL)
      [] k = 2 -> Request("POST", AUTH_URL, "", {}, form_params(username, password))
      [] k = 3 -> Get(AUTH_GRANT_URL)
      [] k = 4 -> Get([TOKEN_INFO_URL EXCEPT !.host = AUTH_URL.host])

\* The k-th request of the handshake.
HandshakeRequest(k, username, password) ==
    CASE k = 1 -> Get(AUTH_TEST_URL)
      [] k = 2 -> Request("POST", AUTH_URL, "", {}, form_params(username, password))
      [] k = 3 -> Get(AUTH_GRANT_URL)
      [] k = 4 -> Get(TOKEN_INFO_URL)

\* HttpClient::builder().cookie_store(true).build().map_err(Error::HttpClient)?
authenticate_http(ok) ==
    /\ pc = "auth_http"
    /\ UNCHANGED <<transform, tasks>>
    /\ IF ok
       THEN /\ http' = TRUE
            /\ step' = 1
            /\ pc' = "auth_send"
            /\ UNCHANGED <<result, creds>>
       ELSE /\ Return(HttpClientError, "failed")
            /\ creds' = <<>>
            /\ UNCHANGED <<http, step>>
    /\ UNCHANGED <<op, env, builder, nset, client, messages_initialized,
                   inflight, reqs, recv, ncalls, boots, booted>>

\* http.get(..) / http.post(..).form(..) followed by .send()
authenticate_send ==
    /\ pc = "auth_send"
    /\ UNCHANGED <<transform, tasks>>
    /\ Dispatch(HandshakeRequest(step, creds[1], creds[2]))
    /\ pc' = "auth_wait"
    /\ UNCHANGED <<op, env, builder, nset, creds, http, client, messages_initialized,
                   step, recv, result, ncalls, boots, booted>>

\* Mutant: the token check accepts every 2xx status.
authenticate_next_Any2xx(k, o) ==
    IF o.outcome = "send_error" THEN RequestError
    ELSE IF k < 4 THEN NoResult
    ELSE IF o.status < 200 \/ o.status > 299 THEN Authentication
    ELSE Ok(<<>>)

\* Mutant: a transport failure of requests 1 to 3 is dropped, and one of the
\* token request counts as a rejection.
authenticate_next_DropsFailure(k, o) ==
    IF k < 4 THEN NoResult
    ELSE IF o.outcome = "send_error" \/ o.status # 200 THEN Authentication
    ELSE Ok(<<>>)

\* Mutant: the client is returned after the grant request, without the token check.
authenticate_next_NoTokenCheck(k, o) ==
    IF o.outcome = "send_error" THEN RequestError
    ELSE IF k < 3 THEN NoResult
    ELSE Ok(<<>>)

\* Mutant: a response outside 200-299 at any step fails the authentication.
authenticate_next_ChecksEveryStatus(k, o) ==
    IF o.outcome = "send_error" THEN RequestError
    ELSE IF k < 4 /\ (o.status < 200 \/ o.status > 299) THEN Authentication
    ELSE IF k < 4 THEN NoResult
    ELSE IF o.status # 200 THEN Authentication
    ELSE Ok(<<>>)

\* What authenticate does with the outcome o of request k: the next request,
\* or the value it returns.
authenticate_next(k, o) ==
    IF o.outcome = "send_error" THEN RequestError
    ELSE IF k < 4 THEN NoResult
    ELSE IF o.status # 200 THEN Authentication
    ELSE Ok(<<>>)

\* .await.map_err(Error::Request)? of request `step`, and the status check
authenticate_recv(o) ==
    /\ pc = "auth_wait"
    /\ UNCHANGED <<transform, tasks>>
    /\ Settle(LastReq, o)
    /\ LET r == authenticate_next(step, o) IN
       IF r.tag = "none"
       THEN /\ step' = step + 1
            /\ pc' = "auth_send"
            /\ UNCHANGED <<result, creds, client, messages_initialized>>
       ELSE IF r.tag = "Err"
       THEN /\ Return(r, "failed")
            /\ creds' = <<>>
            /\ UNCHANGED <<step, client, messages_initialized>>
       ELSE /\ Return(r, "idle")
            /\ creds' = <<>>
            /\ client' = TRUE
            /\ messages_initialized' = FALSE
            /\ UNCHANGED step
    /\ UNCHANGED <<op, env, builder, nset, http, recv, ncalls, boots, booted>>

(***************************************************************************)
(* Request executor and typed decoder (lib.rs 401-439, 475-481)            *)
(***************************************************************************)
\* StatusCode::is_success
is_success(status) == status >= 200 /\ status <= 299

\* response.text(): the body decoded as UTF-8, every invalid byte replaced by
\* U+FFFD (EF BF BD).  Of the bytes the model sends only 0xFF is invalid.
RECURSIVE text(_)
text(bytes) ==
    IF bytes = <<>> THEN <<>>
    ELSE (IF Head(bytes) < 128 THEN <<Head(bytes)>> ELSE <<239, 191, 189>>)
         \o text(Tail(bytes))

\* Mutant: the status is not looked at and every body that was read is returned.
get_api_NoStatusCheck(o) ==
    IF o.outcome = "send_error" THEN RequestError
    ELSE IF o.outcome = "body_error" THEN RequestError
    ELSE Ok(text(o.body))

\* get_api: the Result<String> made of the outcome o of its request
get_api(o) ==
    IF o.outcome = "send_error" THEN RequestError
    ELSE IF o.outcome = "body_error" THEN RequestError
    ELSE IF ~is_success(o.status) THEN ApiError(o.status, text(o.body))
    ELSE Ok(text(o.body))

\* get_messages_api: the Result<String> made of the outcome o of its request
get_messages_api(o) ==
    IF o.outcome = "send_error" THEN RequestError
    ELSE IF o.outcome = "body_error" THEN RequestError
    ELSE IF ~is_success(o.status) THEN ApiError(o.status, text(o.body))
    ELSE Ok(text(o.body))

AcademicOps == {"me", "homeworks"}
MessagingOps == {"unread_counts", "inbox_messages"}

\* The endpoint each accessor asks for.
endpoint(o) ==
    CASE o = "me" -> "Me"
      [] o = "homeworks" -> "HomeWorks/"
      [] o = "unread_counts" -> "inbox/unreadMessagesCount"
      [] o = "inbox_messages" -> "inbox/messages?page=1&limit=1"
      [] o = "attachment" -> "attachments/7/messages/12345"

\* The shape each accessor decodes into.
shape(o) ==
    CASE o = "me" -> "ResponseMe"
      [] o = "homeworks" -> "ResponseHomeworks"
      [] o = "unread_counts" -> "ResponseUnreadCounts"
      [] o = "inbox_messages" -> "ResponseInboxMessages"

\* serde_json::from_str::<T>(json).is_ok().  A derived struct decodes from a
\* JSON array of its fields in order: ResponseInboxMessages { data: Vec<_> }
\* from [[]], ResponseHomeworks { Vec<_>, Option<_>, String } from
\* [[],null,""].  No other text the model's bodies give decodes: ResponseMe and
\* ResponseUnreadCounts need numbers and strings in every document.
from_str(T, json) ==
    CASE T = "ResponseInboxMessages" -> json = InboxDoc
      [] T = "ResponseHomeworks" -> json = HomeworksDoc
      [] OTHER -> FALSE

\* Mutant: the body of an error response is decoded as well, and a body
\* that does not decode is reported as a parse error.
decode_BeforeStatus(T, r) ==
    IF r.tag = "Err" /\ r.kind # "ApiError" THEN r
    ELSE IF from_str(T, r.body) THEN (IF r.tag = "Err" THEN r ELSE Ok(r.body))
    ELSE ParseError(r.body)

\* Mutant: the parse error does not keep the text.
decode_DropsBody(T, r) ==
    IF r.tag = "Err" THEN r
    ELSE IF from_str(T, r.body) THEN Ok(r.body)
    ELSE ParseError(<<>>)

\* let json = self.get_api(..).await?;
\* serde_json::from_str(&json).map_err(|e| Error::Parse { source: e, body: json })
decode(T, r) ==
    IF r.tag = "Err" THEN r
    ELSE IF from_str(T, r.body) THEN Ok(r.body)
    ELSE ParseError(r.body)

\* The caller starts accessor o on its client.
StartCall(o) ==
    /\ pc = "idle"
    /\ UNCHANGED <<transform, tasks>>
    /\ client
    /\ ncalls < MaxCalls
    /\ ncalls' = ncalls + 1
    /\ op' = o
    /\ reqs' = <<>>
    /\ recv' = NoRecv
    /\ result' = NoResult

\* Mutant: an academic accessor goes through ensure_messages_initialized.
academic_call_Ensures(o) ==
    /\ StartCall(o)
    /\ pc' = "ensure"
    /\ UNCHANGED <<env, builder, nset, creds, http, client, messages_initialized, step,
                   inflight, boots, booted>>

\* me(), homeworks(), ...: &self accessors of the academic API
academic_call(o) ==
    /\ StartCall(o)
    /\ pc' = "api_send"
    /\ UNCHANGED <<env, builder, nset, creds, http, client, messages_initialized, step,
                   inflight, boots, booted>>

get_api_send ==
    /\ pc = "api_send"
    /\ UNCHANGED <<transform, tasks>>
    /\ Dispatch(Request("GET", SYNERGIA_API_BASE, endpoint(op),
                        {<<"Content-Type", "application/json">>}, <<>>))
    /\ pc' = "api_wait"
    /\ UNCHANGED <<op, env, builder, nset, creds, http, client, messages_initialized,
                   step, recv, result, ncalls, boots, booted>>

\* Mutant: a request whose send failed is sent once more.
get_api_recv_Retries(o) ==
    /\ pc = "api_wait"
    /\ UNCHANGED <<transform, tasks>>
    /\ Settle(LastReq, o)
    /\ IF o.outcome = "send_error" /\ Len(reqs) < 2
       THEN pc' = "api_send" /\ UNCHANGED <<recv, result>>
       ELSE recv' = o /\ Return(decode(shape(op), get_api(o)), "idle")
    /\ UNCHANGED <<op, env, builder, nset, creds, http, client, messages_initialized,
                   step, ncalls, boots, booted>>

\* .send().await, .text().await, the status check and the decoding
get_api_recv(o) ==
    /\ pc = "api_wait"
    /\ UNCHANGED <<transform, tasks>>
    /\ Settle(LastReq, o)
    /\ recv' = o
    /\ Return(decode(shape(op), get_api(o)), "idle")
    /\ UNCHANGED <<op, env, builder, nset, creds, http, client, messages_initialized,
                   step, ncalls, boots, booted>>

(***************************************************************************)
(* Lazy initialisation of the messages API (lib.rs 441-452, 833-1001)      *)
(***************************************************************************)
\* unread_counts(), inbox_messages(), attachment(), ...: &mut self accessors
messaging_call(o) ==
    /\ StartCall(o)
    /\ pc' = "ensure"
    /\ UNCHANGED <<env, builder, nset, creds, http, client, messages_initialized, step,
                   inflight, boots, booted>>

AfterEnsure == IF op = "attachment" THEN "att_send" ELSE "msg_send"

\* Mutant: the bootstrap is never made.
ensure_skips_Always(initialized) == TRUE

\* Mutant: the flag is not consulted and every call makes the bootstrap.
ensure_skips_Never(initialized) == FALSE

\* if self.messages_initialized { return Ok(()); }
ensure_skips(initialized) == initialized

\* Mutant: a failed bootstrap is reported as a failed authentication.
ensure_result_AsAuthentication(o) ==
    IF o.outcome = "send_error" THEN Authentication ELSE Ok(<<>>)

\* Mutant: a bootstrap response outside 200-299 is reported as ApiError.
ensure_result_ChecksStatus(o) ==
    IF o.outcome = "send_error" THEN RequestError
    ELSE IF ~is_success(o.status) THEN ApiError(o.status, text(o.body))
    ELSE Ok(<<>>)

\* What ensure_messages_initialized returns for the outcome o of its request.
ensure_result(o) == IF o.outcome = "send_error" THEN RequestError ELSE Ok(<<>>)

\* Mutant: the flag is set before the outcome of the request is looked at.
ensure_flag_SetBeforeCheck(initialized, requested, r) ==
    IF requested THEN TRUE ELSE initialized

\* Mutant: the flag is assigned whether this call made a successful bootstrap.
ensure_flag_Overwrites(initialized, requested, r) ==
    requested /\ r.tag = "Ok"

\* self.messages_initialized when ensure_messages_initialized returns r,
\* having sent its request (requested) or having returned early.
ensure_flag(initialized, requested, r) ==
    IF requested /\ r.tag = "Ok" THEN TRUE ELSE initialized

\* self.ensure_messages_initialized().await?  -- the check and the early return
ensure_messages_initialized ==
    /\ pc = "ensure"
    /\ UNCHANGED <<transform, tasks>>
    /\ IF ensure_skips(messages_initialized)
       THEN /\ messages_initialized' = ensure_flag(messages_initialized, FALSE, Ok(<<>>))
            /\ pc' = AfterEnsure
       ELSE /\ pc' = "boot_send"
            /\ UNCHANGED messages_initialized
    /\ UNCHANGED <<op, env, builder, nset, creds, http, client,
                   step, inflight, reqs, recv, result, ncalls, boots, booted>>

\* self.http.get(MESSAGES_INIT_URL).send()
ensure_send ==
    /\ pc = "boot_send"
    /\ UNCHANGED <<transform, tasks>>
    /\ Dispatch(Get(MESSAGES_INIT_URL))
    /\ boots' = boots + 1
    /\ pc' = "boot_wait"
    /\ UNCHANGED <<op, env, builder, nset, creds, http, client, messages_initialized,
                   step, recv, result, ncalls, booted>>

\* .await.map_err(Error::Request)?; self.messages_initialized = true; Ok(())
ensure_recv(o) ==
    /\ pc = "boot_wait"
    /\ UNCHANGED <<transform, tasks>>
    /\ Settle(LastReq, o)
    /\ booted' = IF o.outcome = "send_error" THEN booted ELSE booted + 1
    /\ LET r == ensure_result(o) IN
       /\ messages_initialized' = ensure_flag(messages_initialized, TRUE, r)
       /\ IF r.tag = "Err"
          THEN Return(r, "idle")
          ELSE pc' = AfterEnsure /\ UNCHANGED result
    /\ UNCHANGED <<op, env, builder, nset, creds, http, client, step, recv, ncalls, boots>>

get_messages_api_send ==
    /\ pc = "msg_send"
    /\ UNCHANGED <<transform, tasks>>
    /\ Dispatch(Request("GET", MESSAGES_API_BASE, endpoint(op), {}, <<>>))
    /\ pc' = "msg_wait"
    /\ UNCHANGED <<op, env, builder, nset, creds, http, client, messages_initialized,
                   step, recv, result, ncalls, boots, booted>>

get_messages_api_recv(o) ==
    /\ pc = "msg_wait"
    /\ UNCHANGED <<transform, tasks>>
    /\ Settle(LastReq, o)
    /\ recv' = o
    /\ Return(decode(shape(op), get_messages_api(o)), "idle")
    /\ UNCHANGED <<op, env, builder, nset, creds, http, client, messages_initialized,
                   step, ncalls, boots, booted>>

\* attachment: self.http.get(&url).send(), url being the literal
\* https://wiadomosci.librus.pl/api/attachments/{}/messages/{}
attachment_send ==
    /\ pc = "att_send"
    /\ UNCHANGED <<transform, tasks>>
    /\ Dispatch(Request("GET", MESSAGES_API_BASE, endpoint(op), {}, <<>>))
    /\ pc' = "att_wait"
    /\ UNCHANGED <<op, env, builder, nset, creds, http, client, messages_initialized,
                   step, recv, result, ncalls, boots, booted>>

\* Mutant: the body is read, and a failure to read it returned, before the
\* status is looked at, as get_api does.
attachment_ReadsBodyFirst(o) ==
    IF o.outcome = "send_error" THEN RequestError
    ELSE IF o.outcome = "body_error" THEN RequestError
    ELSE IF ~is_success(o.status) THEN ApiError(o.status, text(o.body))
    ELSE Ok(o.body)

\* attachment: the Result<Vec<u8>> made of the outcome o of its request
attachment(o) ==
    IF o.outcome = "send_error" THEN RequestError
    ELSE IF ~is_success(o.status)
    THEN ApiError(o.status, IF o.outcome = "body_error" THEN <<>> ELSE text(o.body))
    ELSE IF o.outcome = "body_error" THEN RequestError
    ELSE Ok(o.body)

attachment_recv(o) ==
    /\ pc = "att_wait"
    /\ UNCHANGED <<transform, tasks>>
    /\ Settle(LastReq, o)
    /\ recv' = o
    /\ Return(attachment(o), "idle")
    /\ UNCHANGED <<op, env, builder, nset, creds, http, client, messages_initialized,
                   step, ncalls, boots, booted>>

(***************************************************************************)
(* Specification                                                           *)
(***************************************************************************)
Next ==
    \/ \E u \in Credentials, p \in Credentials : Client_new(u, p)
    \/ \E e \in Environments : Client_from_env(e)
    \/ Client_builder
    \/ \E u \in Credentials : ClientBuilder_username(u)
    \/ \E p \in Credentials : ClientBuilder_password(p)
    \/ ClientBuilder_build
    \/ \E ok \in BOOLEAN : authenticate_http(ok)
    \/ authenticate_send
    \/ \E o \in Outcomes : authenticate_recv(o)
    \/ \E o \in AcademicOps : academic_call(o)
    \/ get_api_send
    \/ \E o \in Outcomes : get_api_recv(o)
    \/ \E o \in MessagingOps \cup {"attachment"} : messaging_call(o)
    \/ ensure_messages_initialized
    \/ ensure_send
    \/ \E o \in Outcomes : ensure_recv(o)
    \/ get_messages_api_send
    \/ \E o \in Outcomes : get_messages_api_recv(o)
    \/ attachment_send
    \/ \E o \in Outcomes : attachment_recv(o)

Spec == Init /\ [][Next]_vars

(***************************************************************************)
(* Content transforms (lib.rs 1024-1069): associated functions of Client   *)
(* that take a &str and touch no session.  A &str and a String are the     *)
(* sequences of their bytes or code points, all below 128 where a function *)
(* looks at characters.                                                    *)
(***************************************************************************)
session == <<pc, op, env, builder, nset, creds, http, client, messages_initialized, step,
             inflight, reqs, recv, result, ncalls, boots, booted>>

\* The i-th symbol (0..63) of the standard alphabet: A-Z a-z 0-9 + /
symbol(i) ==
    IF i < 26 THEN 65 + i
    ELSE IF i < 52 THEN 97 + (i - 26)
    ELSE IF i < 62 THEN 48 + (i - 52)
    ELSE IF i = 62 THEN 43 ELSE 47

\* The value of the character c in the standard alphabet, -1 if it has none.
value(c) ==
    IF c >= 65 /\ c <= 90 THEN c - 65
    ELSE IF c >= 97 /\ c <= 122 THEN c - 97 + 26
    ELSE IF c >= 48 /\ c <= 57 THEN c - 48 + 52
    ELSE IF c = 43 THEN 62
    ELSE IF c = 47 THEN 63 ELSE 0 - 1

\* '=' , the padding character
PAD == 61

\* STANDARD.encode(bytes): three bytes give four symbols, the last group is
\* padded with '='.
RECURSIVE STANDARD_encode(_)
STANDARD_encode(b) ==
    IF Len(b) = 0 THEN <<>>
    ELSE IF Len(b) = 1
    THEN <<symbol(b[1] \div 4), symbol((b[1] % 4) * 16), PAD, PAD>>
    ELSE IF Len(b) = 2
    THEN <<symbol(b[1] \div 4), symbol((b[1] % 4) * 16 + b[2] \div 16),
           symbol((b[2] % 16) * 4), PAD>>
    ELSE <<symbol(b[1] \div 4), symbol((b[1] % 4) * 16 + b[2] \div 16),
           symbol((b[2] % 16) * 4 + b[3] \div 64), symbol(b[3] % 64)>>
         \o STANDARD_encode(SubSeq(b, 4, Len(b)))

\* STANDARD.decode(content).ok(): groups of four symbols; only the last group
\* may end in one or two '=', which it must have when it is short (canonical
\* padding), and the bits of its last symbol that belong to no byte must be
\* zero.
RECURSIVE STANDARD_decode(_)
STANDARD_decode(c) ==
    IF Len(c) = 0 THEN Some(<<>>)
    ELSE IF Len(c) < 4 THEN None
    ELSE LET v1 == value(c[1])
             v2 == value(c[2])
             v3 == value(c[3])
             v4 == value(c[4])
             last == Len(c) = 4
         IN  IF v1 < 0 \/ v2 < 0 THEN None
             ELSE IF v3 >= 0 /\ v4 >= 0
             THEN LET rest == STANDARD_decode(SubSeq(c, 5, Len(c)))
                  IN  IF rest.tag = "None" THEN None
                      ELSE Some(<<v1 * 4 + v2 \div 16, (v2 % 16) * 16 + v3 \div 4,
                                  (v3 % 4) * 64 + v4>> \o rest.value)
             ELSE IF last /\ v3 >= 0 /\ c[4] = PAD /\ v3 % 4 = 0
             THEN Some(<<v1 * 4 + v2 \div 16, (v2 % 16) * 16 + v3 \div 4>>)
             ELSE IF last /\ c[3] = PAD /\ c[4] = PAD /\ v2 % 16 = 0
             THEN Some(<<v1 * 4 + v2 \div 16>>)
             ELSE None

\* Whether the bytes b are well-formed UTF-8, as String::from_utf8 validates:
\* no stray continuation byte, no overlong form, no surrogate, nothing above
\* U+10FFFF, no truncated sequence.
RECURSIVE run_utf8_validation(_)
run_utf8_validation(b) ==
    IF b = <<>> THEN TRUE
    ELSE LET n == Len(b)
             cont(i, lo, hi) == i <= n /\ b[i] >= lo /\ b[i] <= hi
             then(k) == run_utf8_validation(SubSeq(b, k, n))
         IN  IF b[1] < 128 THEN then(2)
             ELSE IF b[1] >= 194 /\ b[1] <= 223
             THEN cont(2, 128, 191) /\ then(3)
             ELSE IF b[1] = 224
             THEN cont(2, 160, 191) /\ cont(3, 128, 191) /\ then(4)
             ELSE IF b[1] = 237
             THEN cont(2, 128, 159) /\ cont(3, 128, 191) /\ then(4)
             ELSE IF b[1] >= 225 /\ b[1] <= 239
             THEN cont(2, 128, 191) /\ cont(3, 128, 191) /\ then(4)
             ELSE IF b[1] = 240
             THEN cont(2, 144, 191) /\ cont(3, 128, 191) /\ cont(4, 128, 191) /\ then(5)
             ELSE IF b[1] >= 241 /\ b[1] <= 243
             THEN cont(2, 128, 191) /\ cont(3, 128, 191) /\ cont(4, 128, 191) /\ then(5)
             ELSE IF b[1] = 244
             THEN cont(2, 128, 143) /\ cont(3, 128, 191) /\ cont(4, 128, 191) /\ then(5)
             ELSE FALSE

\* Mutant: only ASCII is accepted as text.
from_utf8_AsciiOnly(bytes) ==
    IF \A i \in DOMAIN bytes : bytes[i] < 128 THEN Some(bytes) ELSE None

\* String::from_utf8(bytes).ok()
from_utf8(bytes) == IF run_utf8_validation(bytes) THEN Some(bytes) ELSE None

\* Mutant: the padding of the last group is not required.
decode_message_content_NoPad(c) ==
    LET padded == IF Len(c) % 4 = 2 THEN c \o <<PAD, PAD>>
                  ELSE IF Len(c) % 4 = 3 THEN c \o <<PAD>> ELSE c
        bytes == STANDARD_decode(padded)
    IN  IF bytes.tag = "None" THEN None ELSE from_utf8(bytes.value)

\* STANDARD.decode(content).ok().and_then(|bytes| String::from_utf8(bytes).ok())
decode_message_content(c) ==
    LET bytes == STANDARD_decode(c)
    IN  IF bytes.tag = "None" THEN None ELSE from_utf8(bytes.value)

\* Mutant: a '<' that no '>' follows is text, and so is what follows it.
RECURSIVE scan_KeepsUnterminated(_, _)
scan_KeepsUnterminated(c, in_tag) ==
    IF c = <<>> THEN <<>>
    ELSE IF Head(c) = 60
    THEN IF \E j \in 2 .. Len(c) : c[j] = 62
         THEN scan_KeepsUnterminated(Tail(c), TRUE)
         ELSE <<Head(c)>> \o scan_KeepsUnterminated(Tail(c), in_tag)
    ELSE IF Head(c) = 62 THEN scan_KeepsUnterminated(Tail(c), FALSE)
    ELSE IF ~in_tag THEN <<Head(c)>> \o scan_KeepsUnterminated(Tail(c), in_tag)
    ELSE scan_KeepsUnterminated(Tail(c), in_tag)

\* Mutant: a '>' met outside a tag is pushed like any other character.
RECURSIVE scan_KeepsStray(_, _)
scan_KeepsStray(c, in_tag) ==
    IF c = <<>> THEN <<>>
    ELSE IF Head(c) = 60 THEN scan_KeepsStray(Tail(c), TRUE)
    ELSE IF Head(c) = 62 /\ in_tag THEN scan_KeepsStray(Tail(c), FALSE)
    ELSE IF ~in_tag THEN <<Head(c)>> \o scan_KeepsStray(Tail(c), in_tag)
    ELSE scan_KeepsStray(Tail(c), in_tag)

\* The scan of notice_content_to_text over the characters of c: '<' sets
\* in_tag, '>' clears it, any other character is pushed unless in_tag.
RECURSIVE scan(_, _)
scan(c, in_tag) ==
    IF c = <<>> THEN <<>>
    ELSE IF Head(c) = 60 THEN scan(Tail(c), TRUE)
    ELSE IF Head(c) = 62 THEN scan(Tail(c), FALSE)
    ELSE IF ~in_tag THEN <<Head(c)>> \o scan(Tail(c), in_tag)
    ELSE scan(Tail(c), in_tag)

\* str::replace(from, to): every non-overlapping match of from, found from
\* left to right, is replaced by to.
RECURSIVE replace(_, _, _)
replace(s, from, to) ==
    IF Len(s) < Len(from) THEN s
    ELSE IF SubSeq(s, 1, Len(from)) = from
    THEN to \o replace(SubSeq(s, Len(from) + 1, Len(s)), from, to)
    ELSE <<Head(s)>> \o replace(Tail(s), from, to)

\* The replacements of lines 1060-1066 in their order:
\* &nbsp; -> ' ', &amp; -> '&', &lt; -> '<', &gt; -> '>', &quot; -> '"', &#39; -> '
Entities ==
    << <<(<<38, 110, 98, 115, 112, 59>>), <<32>>>>,
       <<(<<38, 97, 109, 112, 59>>), <<38>>>>,
       <<(<<38, 108, 116, 59>>), <<60>>>>,
       <<(<<38, 103, 116, 59>>), <<62>>>>,
       <<(<<38, 113, 117, 111, 116, 59>>), <<34>>>>,
       <<(<<38, 35, 51, 57, 59>>), <<39>>>> >>

\* Mutant: the replacements are made in the reverse order, &#39; first.
RECURSIVE replace_from_LastFirst(_, _, _)
replace_from_LastFirst(s, table, k) ==
    IF k > Len(table) THEN s
    ELSE replace(replace_from_LastFirst(s, table, k + 1), table[k][1], table[k][2])

\* The chain of .replace calls from the k-th on, applied to s.
RECURSIVE replace_from(_, _, _)
replace_from(s, table, k) ==
    IF k > Len(table) THEN s
    ELSE replace_from(replace(s, table[k][1], table[k][2]), table, k + 1)

\* char::is_whitespace (White_Space)
is_whitespace(ch) ==
    ch \in {9, 10, 11, 12, 13, 32, 133, 160, 5760, 8232, 8233, 8239, 8287, 12288}
           \cup (8192 .. 8202)

\* str::trim
RECURSIVE trim_start(_)
trim_start(s) ==
    IF s # <<>> /\ is_whitespace(Head(s)) THEN trim_start(Tail(s)) ELSE s

RECURSIVE trim_end(_)
trim_end(s) ==
    IF s # <<>> /\ is_whitespace(s[Len(s)]) THEN trim_end(SubSeq(s, 1, Len(s) - 1)) ELSE s

trim(s) == trim_end(trim_start(s))

\* Mutant: the result is not trimmed.
notice_content_to_text_NoTrim(c) ==
    String(replace_from(scan(c, FALSE), Entities, 1))

\* Client::notice_content_to_text(content)
notice_content_to_text(c) ==
    String(trim(replace_from(scan(c, FALSE), Entities, 1)))

(***************************************************************************)
(* Inputs of the content transforms                                        *)
(***************************************************************************)
MaxChars == 3         \* characters of a text that is encoded and decoded
MaxContentLen == 4    \* characters of an arbitrary argument of decode_message_content
MaxPieces == 3        \* pieces an argument of notice_content_to_text is made of

\* All concatenations of at most n sequences of P.
RECURSIVE Concats(_, _)
Concats(P, n) ==
    IF n = 0 THEN {<<>>}
    ELSE LET shorter == Concats(P, n - 1)
         IN  shorter \cup {s \o x : s \in shorter, x \in P}

\* The UTF-8 encodings of o, e-acute, pi, the euro sign and U+1F600: texts
\* of one to four bytes a character, whose encodings use letters, digits,
\* '+' ("o" then pi) and '/' ("oo" then e-acute) and both paddings.
TextChars ==
    {<<111>>, <<195, 169>>, <<207, 128>>, <<226, 130, 172>>, <<240, 159, 152, 128>>}

Texts == Concats(TextChars, MaxChars)

\* A Q w / = !
ContentChars == {65, 81, 119, 47, 61, 33}

\* "SGVsbG8sIFdvcmxkIQ==", the example of the documentation (line 1020)
EncodedHello ==
    <<83, 71, 86, 115, 98, 71, 56, 115, 73, 70, 100, 118, 99, 109, 120, 107, 73, 81, 61, 61>>

\* "Hello, World!"
Hello == <<72, 101, 108, 108, 111, 44, 32, 87, 111, 114, 108, 100, 33>>

Contents == SeqsUpTo(ContentChars, MaxContentLen) \cup {EncodedHello}

\* < > a b ' ' lt; nbsp; &copy; and the six entities of the table
Pieces ==
    {<<60>>, <<62>>, <<97>>, <<98>>, <<32>>, <<108, 116, 59>>, <<110, 98, 115, 112, 59>>,
     <<38, 99, 111, 112, 121, 59>>}
    \cup {Entities[k][1] : k \in DOMAIN Entities}

\* "<p>Hello&nbsp;<b>World</b> &amp; friends</p>" (lines 1041, 1092)
NoticeExample ==
    <<60, 112, 62, 72, 101, 108, 108, 111, 38, 110, 98, 115, 112, 59, 60, 98, 62,
      87, 111, 114, 108, 100, 60, 47, 98, 62, 32, 38, 97, 109, 112, 59, 32,
      102, 114, 105, 101, 110, 100, 115, 60, 47, 112, 62>>

\* "Hello World & friends"
NoticeExampleText ==
    <<72, 101, 108, 108, 111, 32, 87, 111, 114, 108, 100, 32, 38, 32,
      102, 114, 105, 101, 110, 100, 115>>

\* "a > b"
StrayExample == <<97, 32, 62, 32, 98>>

Notices == Concats(Pieces, MaxPieces) \cup {NoticeExample, StrayExample}

\* A caller without a client that is about to apply one transform once.
TransformInit ==
    /\ pc = "start" /\ op = "none" /\ env = NoEnv
    /\ builder = [username |-> {}, password |-> {}] /\ nset = 0
    /\ creds = <<>> /\ http = FALSE /\ client = FALSE /\ messages_initialized = FALSE
    /\ step = 0 /\ inflight = {} /\ reqs = <<>> /\ recv = NoRecv /\ result = NoResult
    /\ ncalls = 0 /\ boots = 0 /\ booted = 0
    /\ out = Pending
    /\ tasks = NoTasks
    /\ \/ call = "test_decode_message_content" /\ content \in Texts
       \/ call = "decode_message_content" /\ content \in Contents
       \/ call = "notice_content_to_text" /\ content \in Notices

\* let encoded = STANDARD.encode(s); Client::decode_message_content(&encoded)
test_decode_message_content ==
    /\ call = "test_decode_message_content"
    /\ out = Pending
    /\ out' = decode_message_content(STANDARD_encode(content))
    /\ UNCHANGED <<call, content, session, tasks>>

\* Client::decode_message_content(content)
Client_decode_message_content ==
    /\ call = "decode_message_content"
    /\ out = Pending
    /\ out' = decode_message_content(content)
    /\ UNCHANGED <<call, content, session, tasks>>

\* Client::notice_content_to_text(content)
Client_notice_content_to_text ==
    /\ call = "notice_content_to_text"
    /\ out = Pending
    /\ out' = notice_content_to_text(content)
    /\ UNCHANGED <<call, content, session, tasks>>

TransformNext ==
    \/ test_decode_message_content
    \/ Client_decode_message_content
    \/ Client_notice_content_to_text

TransformSpec == TransformInit /\ [][TransformNext]_vars

(***************************************************************************)
(* Tasks sharing one client.  A call of an accessor borrows the client for *)
(* as long as its future lives: me(&self), homeworks(&self) share it;      *)
(* unread_counts(&mut self), inbox_messages(&mut self) and                 *)
(* ensure_messages_initialized(&mut self) need it exclusively, and the     *)
(* compiler rejects a program in which another borrow is alive then.       *)
(***************************************************************************)
MaxTaskCalls == 2    \* accessor calls made by one task

\* The variables of the single caller, which the tasks leave alone.
single == <<pc, op, env, builder, nset, creds, http, client, step, inflight, reqs, recv,
            result, ncalls>>

\* The client of the tasks: the state after a successful handshake.
ConcurrentInit ==
    /\ pc = "idle" /\ op = "new" /\ env = NoEnv
    /\ builder = [username |-> {}, password |-> {}] /\ nset = 0
    /\ creds = <<>> /\ http = TRUE /\ client = TRUE /\ messages_initialized = FALSE
    /\ step = 4 /\ inflight = {} /\ recv = NoRecv /\ result = Ok(<<>>)
    /\ \E u \in Credentials, p \in Credentials :
          reqs = [k \in 1 .. 4 |->
                    [req |-> HandshakeRequest(k, u, p), state |-> "answered", status |-> 200]]
    /\ ncalls = 0 /\ boots = 0 /\ booted = 0
    /\ call = "none" /\ content = <<>> /\ out = Pending
    /\ tasks = NoTasks

\* The positions of a task at which it holds the client through &mut self.
ExclusivePcs == {"ensure", "boot_send", "boot_wait", "msg_send", "msg_wait"}

\* The borrow rules: &mut self while no other borrow is alive, &self while no
\* exclusive borrow is.
may_borrow_mut(t) == \A u \in Tasks \ {t} : tasks[u].pc = "idle"
may_borrow(t) == \A u \in Tasks \ {t} : tasks[u].pc \notin ExclusivePcs

\* What a task keeps of the value a call returned: Ok or the kind of error.
returned(r) == IF r.tag = "Ok" THEN "Ok" ELSE r.kind

\* Task t calls a &self accessor of the academic API and sends its request.
task_academic_call(t, o) ==
    /\ tasks[t].pc = "idle"
    /\ tasks[t].calls < MaxTaskCalls
    /\ may_borrow(t)
    /\ tasks' = [tasks EXCEPT ![t] =
                    [pc |-> "api_wait", op |-> o, calls |-> @.calls + 1, result |-> "none"]]
    /\ UNCHANGED <<single, transform, messages_initialized, boots, booted>>

\* The outcome of the request of task t arrives; the call returns.
task_get_api_recv(t, o) ==
    /\ tasks[t].pc = "api_wait"
    /\ tasks' = [tasks EXCEPT ![t].pc = "idle",
                              ![t].result = returned(decode(shape(tasks[t].op), get_api(o)))]
    /\ UNCHANGED <<single, transform, messages_initialized, boots, booted>>

\* Mutant: a messaging accessor takes &self, as the academic ones do.
task_messaging_call_Shared(t, o) ==
    /\ tasks[t].pc = "idle"
    /\ tasks[t].calls < MaxTaskCalls
    /\ may_borrow(t)
    /\ tasks' = [tasks EXCEPT ![t] =
                    [pc |-> "ensure", op |-> o, calls |-> @.calls + 1, result |-> "none"]]
    /\ UNCHANGED <<single, transform, messages_initialized, boots, booted>>

\* Task t calls a &mut self accessor of the messages API.
task_messaging_call(t, o) ==
    /\ tasks[t].pc = "idle"
    /\ tasks[t].calls < MaxTaskCalls
    /\ may_borrow_mut(t)
    /\ tasks' = [tasks EXCEPT ![t] =
                    [pc |-> "ensure", op |-> o, calls |-> @.calls + 1, result |-> "none"]]
    /\ UNCHANGED <<single, transform, messages_initialized, boots, booted>>

\* if self.messages_initialized { return Ok(()); }
task_ensure_messages_initialized(t) ==
    /\ tasks[t].pc = "ensure"
    /\ tasks' = [tasks EXCEPT ![t].pc =
                    IF ensure_skips(messages_initialized) THEN "msg_send" ELSE "boot_send"]
    /\ UNCHANGED <<single, transform, messages_initialized, boots, booted>>

\* self.http.get(MESSAGES_INIT_URL).send()
task_ensure_send(t) ==
    /\ tasks[t].pc = "boot_send"
    /\ boots' = boots + 1
    /\ tasks' = [tasks EXCEPT ![t].pc = "boot_wait"]
    /\ UNCHANGED <<single, transform, messages_initialized, booted>>

\* .await.map_err(Error::Request)?; self.messages_initialized = true;
task_ensure_recv(t, o) ==
    /\ tasks[t].pc = "boot_wait"
    /\ booted' = IF o.outcome = "send_error" THEN booted ELSE booted + 1
    /\ LET r == ensure_result(o) IN
       /\ messages_initialized' = ensure_flag(messages_initialized, TRUE, r)
       /\ tasks' = IF r.tag = "Err"
                   THEN [tasks EXCEPT ![t].pc = "idle", ![t].result = returned(r)]
                   ELSE [tasks EXCEPT ![t].pc = "msg_send"]
    /\ UNCHANGED <<single, transform, boots>>

\* self.http.get(url).send() of get_messages_api
task_get_messages_api_send(t) ==
    /\ tasks[t].pc = "msg_send"
    /\ tasks' = [tasks EXCEPT ![t].pc = "msg_wait"]
    /\ UNCHANGED <<single, transform, messages_initialized, boots, booted>>

\* The outcome of the messages request of task t arrives; the call returns.
task_get_messages_api_recv(t, o) ==
    /\ tasks[t].pc = "msg_wait"
    /\ tasks' = [tasks EXCEPT ![t].pc = "idle",
                              ![t].result =
                                  returned(decode(shape(tasks[t].op), get_messages_api(o)))]
    /\ UNCHANGED <<single, transform, messages_initialized, boots, booted>>

ConcurrentNext ==
    \/ \E t \in Tasks, o \in AcademicOps : task_academic_call(t, o)
    \/ \E t \in Tasks, o \in Outcomes : task_get_api_recv(t, o)
    \/ \E t \in Tasks, o \in MessagingOps : task_messaging_call(t, o)
    \/ \E t \in Tasks : task_ensure_messages_initialized(t)
    \/ \E t \in Tasks : task_ensure_send(t)
    \/ \E t \in Tasks, o \in Outcomes : task_ensure_recv(t, o)
    \/ \E t \in Tasks : task_get_messages_api_send(t)
    \/ \E t \in Tasks, o \in Outcomes : task_get_messages_api_recv(t, o)

ConcurrentSpec == ConcurrentInit /\ [][ConcurrentNext]_vars

(***************************************************************************)
(* Properties                                                              *)
(***************************************************************************)
ConstructionOps == {"new", "from_env", "build"}

\* The handshake is what reqs holds while a constructor is the running call.
InHandshake == op \in ConstructionOps

Answered(i) == reqs[i].state = "answered"

\* C1: the handshake requests are GET auth-test, POST login form, GET grant,
\* GET token-info in this order, none skipped or repeated; a request is
\* dispatched only when every earlier one has been answered, so at most one
\* is in flight, and a finished successful handshake made all four.
C1_HandshakeOrder ==
    InHandshake =>
        /\ Len(reqs) <= 4
        /\ \A i \in DOMAIN reqs :
              /\ reqs[i].req.method = <<"GET", "POST", "GET", "GET">>[i]
              /\ reqs[i].req.host = <<"api.librus.pl", "api.librus.pl", "api.librus.pl",
                                      "synergia.librus.pl">>[i]
              /\ reqs[i].req.path[1] =
                    <<"/OAuth/Authorization?client_id=46&response_type=code&scope=mydata",
                      "/OAuth/Authorization?client_id=46",
                      "/OAuth/Authorization/Grant?client_id=46",
                      "/gateway/api/2.0/Auth/TokenInfo/">>[i]
              /\ (reqs[i].req.form # <<>>) = (i = 2)
              /\ i < Len(reqs) => Answered(i)
        /\ Cardinality(inflight) <= 1
        /\ inflight = {reqs[i].req : i \in {j \in DOMAIN reqs : reqs[j].state = "pending"}}
        /\ client => Len(reqs) = 4

C1_Witness ==
    /\ InHandshake
    /\ pc = "auth_wait"
    /\ Len(reqs) = 4
    /\ inflight = {Get(TOKEN_INFO_URL)}

\* C2: when all four handshake requests were answered, authenticate returns
\* Error::Authentication if the token-info status is not 200 (204 included)
\* and a client if it is 200, whatever the statuses of the first three.
C2_TokenStatusDecides ==
    (InHandshake /\ Len(reqs) = 4 /\ reqs[4].state = "answered") =>
        /\ pc \in {"idle", "failed"}
        /\ reqs[4].status # 200 => (result = Authentication /\ ~client /\ pc = "failed")
        /\ reqs[4].status = 200 => (result.tag = "Ok" /\ client /\ pc = "idle")

C2_Witness ==
    /\ InHandshake
    /\ Len(reqs) = 4
    /\ reqs[1].status = 200 /\ reqs[2].status = 200 /\ reqs[3].status = 200
    /\ reqs[4].state = "answered" /\ reqs[4].status = 204
    /\ result = Authentication

\* C3: a transport failure of handshake request k makes authenticate return
\* Error::Request, not Error::Authentication, and request k stays the last
\* request of the handshake.
C3_TransportFailureAborts ==
    InHandshake =>
        \A k \in DOMAIN reqs :
            reqs[k].state = "failed" =>
                /\ k = Len(reqs)
                /\ pc = "failed"
                /\ result = RequestError
                /\ result # Authentication
                /\ ~client
                /\ inflight = {}

C3_Witness ==
    /\ InHandshake
    /\ Len(reqs) = 3
    /\ reqs[3].state = "failed"
    /\ result.kind = "Request"

\* C4: a client appears only in a step that ends a handshake whose four
\* requests were all answered, the last with status 200, and it appears with
\* messages_initialized false; while there is no client no accessor has been
\* called and no request other than a handshake request has been dispatched.
C4_ClientOnlyFromHandshake ==
    /\ [][(~client /\ client') =>
            /\ InHandshake
            /\ Len(reqs') = 4
            /\ \A i \in 1..4 : reqs'[i].state = "answered"
            /\ reqs'[4].status = 200
            /\ reqs'[4].req = Get(TOKEN_INFO_URL)
            /\ result'.tag = "Ok"
            /\ messages_initialized' = FALSE]_vars
    /\ [](~client =>
            /\ InHandshake \/ op = "none"
            /\ ncalls = 0 /\ boots = 0
            /\ ~messages_initialized
            /\ \A i \in DOMAIN reqs : reqs[i].req.host # "wiadomosci.librus.pl"
                                      /\ reqs[i].req.path[2] = "")

C4_Witness ==
    /\ client
    /\ InHandshake
    /\ pc = "idle"
    /\ ~messages_initialized
    /\ Len(reqs) = 4 /\ reqs[4].status = 200

MessagesHost == "wiadomosci.librus.pl"

IsBootstrap(i) == reqs[i].req = Get(MESSAGES_INIT_URL)

\* A step that dispatches a request to the messages host.
DispatchesToMessages ==
    /\ Len(reqs') = Len(reqs) + 1
    /\ reqs'[Len(reqs')].req.host = MessagesHost

\* C5: a request to the messages host is dispatched only by a messaging
\* accessor, in a state where messages_initialized is true and a bootstrap
\* request of this client has been answered; when the bootstrap of a call
\* fails, the call returns that error and sends nothing to the messages host.
C5_MessagingOnlyWhenReady ==
    /\ [][DispatchesToMessages =>
            /\ op \in MessagingOps \cup {"attachment"}
            /\ messages_initialized
            /\ booted >= 1]_vars
    /\ [](\A i \in DOMAIN reqs :
            /\ reqs[i].req.host = MessagesHost =>
                  /\ messages_initialized
                  /\ i = Len(reqs)
                  /\ \A j \in 1..(i - 1) : IsBootstrap(j) /\ reqs[j].state = "answered"
            /\ (IsBootstrap(i) /\ reqs[i].state = "failed") =>
                  /\ pc = "idle"
                  /\ result = RequestError
                  /\ \A j \in DOMAIN reqs : reqs[j].req.host # MessagesHost)

C5_Witness ==
    /\ op \in MessagingOps
    /\ Len(reqs) = 2
    /\ IsBootstrap(1) /\ reqs[1].state = "answered"
    /\ reqs[2].req.host = MessagesHost
    /\ pc = "msg_wait"

\* C6: with messages_initialized true, ensure_messages_initialized sends
\* nothing, changes nothing and lets the accessor go on; once a bootstrap
\* request of the client has been answered no other bootstrap request is
\* dispatched, so a client has at most one answered bootstrap request.
C6_EnsureIdempotent ==
    /\ [][(pc = "ensure" /\ messages_initialized) =>
            /\ pc' \in {"msg_send", "att_send"}
            /\ UNCHANGED <<reqs, inflight, boots, booted, result, messages_initialized>>]_vars
    /\ [][booted >= 1 => boots' = boots]_vars
    /\ [](booted <= 1)

C6_Witness ==
    /\ ncalls = 2
    /\ boots = 1 /\ booted = 1
    /\ op \in MessagingOps
    /\ pc = "idle"
    /\ Len(reqs) = 1 /\ reqs[1].req.host = MessagesHost /\ reqs[1].state = "answered"

\* C7: a bootstrap request that fails in transport ends its call with
\* Error::Request, as the only request of the call, and leaves
\* messages_initialized false; a messaging call that finds the flag false
\* goes on to dispatch the bootstrap request, once.
C7_BootstrapFailureRetriedByNextCall ==
    /\ [](\A i \in DOMAIN reqs :
            /\ (IsBootstrap(i) /\ reqs[i].state = "failed") =>
                  /\ pc = "idle"
                  /\ result = RequestError
                  /\ ~messages_initialized
                  /\ Len(reqs) = 1
            /\ IsBootstrap(i) => i = 1)
    /\ [][(pc = "ensure" /\ ~messages_initialized) => pc' = "boot_send"]_vars
    /\ [][pc = "boot_send" =>
            /\ boots' = boots + 1
            /\ Len(reqs') = 1 /\ reqs'[1].req = Get(MESSAGES_INIT_URL)
            /\ reqs'[1].state = "pending"]_vars

C7_Witness ==
    /\ ncalls = 2
    /\ boots = 2 /\ booted = 0
    /\ pc = "idle"
    /\ result = RequestError
    /\ ~messages_initialized

\* C8: once messages_initialized is true it stays true, whatever calls
\* follow and however they end.
C8_FlagMonotonic == [][messages_initialized => messages_initialized']_vars

C8_Witness ==
    /\ messages_initialized
    /\ ncalls = 3
    /\ op \in MessagingOps
    /\ pc = "idle"
    /\ result.kind = "Request"

\* An accessor built on get_api or get_messages_api has returned after the
\* outcome of its request arrived.
GetDone ==
    /\ op \in AcademicOps \cup MessagingOps
    /\ pc = "idle"
    /\ recv.outcome # "none"

Outside2xx(status) == status < 200 \/ status > 299

Ascii(bytes) == \A i \in DOMAIN bytes : bytes[i] < 128

\* The request of the accessor succeeded: the accessor got a text to decode.
GetSucceeded == result.tag = "Ok" \/ result.kind = "Parse"

\* C9 as stated: every response with a status outside 200-299 gives
\* Error::ApiError with that status and the body, never Error::Request.
C9_Original ==
    (GetDone /\ recv.outcome \in {"response", "body_error"} /\ Outside2xx(recv.status)) =>
        /\ result.kind = "ApiError"
        /\ result.status = recv.status
        /\ result.kind # "Request"

\* C9 amended: a response with a status outside 200-299 whose body was read
\* gives Error::ApiError with that status and the body as text (the received
\* bytes when they are valid UTF-8); a failure to send or to read the body
\* gives Error::Request whatever the status; the request succeeds only for a
\* status inside 200-299; the outcome is one of success, ApiError, Request.
C9_GetClassifies ==
    GetDone =>
        /\ recv.outcome \in {"send_error", "body_error"} => result = RequestError
        /\ (recv.outcome = "response" /\ Outside2xx(recv.status)) =>
              /\ result.kind = "ApiError"
              /\ result.status = recv.status
              /\ result.body = text(recv.body)
              /\ Ascii(recv.body) => result.body = recv.body
        /\ (recv.outcome = "response" /\ ~Outside2xx(recv.status)) =>
              /\ GetSucceeded
              /\ result.body = text(recv.body)
        /\ GetSucceeded => (recv.outcome = "response" /\ ~Outside2xx(recv.status))
        /\ GetSucceeded \/ result.kind \in {"ApiError", "Request"}

C9_Witness ==
    /\ GetDone
    /\ op = "me"
    /\ recv.outcome = "response" /\ recv.status = 404 /\ recv.body = <<91, 93>>
    /\ result = ApiError(404, <<91, 93>>)

AttachmentDone ==
    /\ op = "attachment"
    /\ pc = "idle"
    /\ recv.outcome # "none"

\* C11: attachment turns every response with a status outside 200-299 into
\* Error::ApiError with that status, never into Error::Request: with the
\* body as text, or with an empty body when the body could not be read; a
\* 2xx response gives the bytes of the body as they were received.
C11_AttachmentClassifies ==
    AttachmentDone =>
        /\ (recv.outcome \in {"response", "body_error"} /\ Outside2xx(recv.status)) =>
              /\ result.kind = "ApiError"
              /\ result.status = recv.status
              /\ recv.outcome = "body_error" => result.body = <<>>
              /\ recv.outcome = "response" => result.body = text(recv.body)
        /\ (recv.outcome = "response" /\ ~Outside2xx(recv.status)) => result = Ok(recv.body)
        /\ result.tag = "Ok" => (recv.outcome = "response" /\ ~Outside2xx(recv.status))
        /\ result.kind = "Request" =>
              \/ recv.outcome = "send_error"
              \/ recv.outcome = "body_error" /\ ~Outside2xx(recv.status)

C11_Witness ==
    /\ AttachmentDone
    /\ recv.outcome = "body_error" /\ recv.status = 500
    /\ result = ApiError(500, <<>>)

C13_BuildNamesMissingField ==
    [][(pc = "builder") =>
          IF pc' = "builder"
          THEN \/ /\ builder'.password = builder.password
                  /\ \E u \in Credentials : builder'.username = {u}
               \/ /\ builder'.username = builder.username
                  /\ \E p \in Credentials : builder'.password = {p}
          ELSE IF builder.username = {}
          THEN pc' = "failed" /\ result' = MissingCredentials("username")
          ELSE IF builder.password = {}
          THEN pc' = "failed" /\ result' = MissingCredentials("password")
          ELSE /\ pc' = "auth_http"
               /\ result' = NoResult
               /\ {creds'[1]} = builder.username
               /\ {creds'[2]} = builder.password]_vars

C13_Witness ==
    /\ op = "build"
    /\ pc = "failed"
    /\ nset = MaxSetters
    /\ builder.username = {"jan"} /\ builder.password = {}
    /\ result = MissingCredentials("password")

\* A constructor was given both credentials explicitly: Client::new, or a
\* build that found both fields set.
ExplicitArgs ==
    \/ op = "new"
    \/ op = "build" /\ pc # "builder" /\ result.kind # "MissingCredentials"

ConstructionOver == pc \in {"failed", "idle"}

\* C14 as stated: with explicit arguments the call always dispatches the
\* first handshake request and returns only errors of the handshake
\* (a transport error or a failed authentication).
C14_Original ==
    (ExplicitArgs /\ ConstructionOver) =>
        /\ Len(reqs) >= 1
        /\ result.kind \in {"", "Request", "Authentication"}

\* C14: with explicit arguments, empty strings included, the call always
\* enters authenticate with the two strings and never fails on the
\* credentials; authenticate either fails to build its HTTP client, returning
\* Error::HttpClient with no request dispatched, or dispatches the first
\* handshake request, and then returns only Error::Request or
\* Error::Authentication.
C14_ExplicitArgsReachAuthenticate ==
    ExplicitArgs =>
        /\ result.kind \in {"", "HttpClient", "Request", "Authentication"}
        /\ pc = "auth_http" => (Len(creds) = 2 /\ reqs = <<>>)
        /\ pc = "auth_send" => (Len(creds) = 2 /\ http)
        /\ ConstructionOver => ((reqs = <<>>) <=> (result = HttpClientError))
        /\ ConstructionOver => ((reqs = <<>>) <=> ~http)
        /\ Len(reqs) >= 2 => reqs[2].req.form[2][2] \in Credentials

C14_Witness ==
    /\ op = "new"
    /\ pc = "failed"
    /\ reqs = <<>>
    /\ result = HttpClientError

\* C15: no call re-issues a request: a handshake dispatches at most four
\* requests, one per step; an academic accessor exactly one; a messaging
\* accessor at most one bootstrap and at most one request to the messages
\* host; no request occurs twice in a call, a request whose send failed is
\* the last of its call, and once a call has an error nothing is in flight
\* and the call has ended.
C15_NoRetry ==
    /\ InHandshake => (Len(reqs) <= 4 /\ Len(reqs) <= step)
    /\ op \in AcademicOps => (Len(reqs) <= 1 /\ (pc = "idle" => Len(reqs) = 1))
    /\ op \in MessagingOps \cup {"attachment"} =>
          /\ Len(reqs) <= 2
          /\ Cardinality({i \in DOMAIN reqs : IsBootstrap(i)}) <= 1
          /\ Cardinality({i \in DOMAIN reqs : reqs[i].req.host = MessagesHost}) <= 1
    /\ \A i, j \in DOMAIN reqs : i < j => reqs[i].req # reqs[j].req
    /\ \A i \in DOMAIN reqs :
          reqs[i].state = "failed" =>
              (i = Len(reqs) /\ result = RequestError /\ pc \in {"idle", "failed"})
    /\ result.tag = "Err" =>
          /\ inflight = {}
          /\ pc \in {"idle", "failed"}
          /\ \A i \in DOMAIN reqs : reqs[i].state # "pending"

C15_Witness ==
    /\ op \in MessagingOps
    /\ pc = "idle"
    /\ Len(reqs) = 2
    /\ IsBootstrap(1) /\ Answered(1)
    /\ reqs[2].state = "failed"
    /\ result = RequestError

\* C16: every step of an academic accessor, whatever its outcome and
\* whatever the flag, leaves messages_initialized, the HTTP client and the
\* client unchanged and dispatches no bootstrap request; the steps that send
\* the request to the messages host and receive its outcome leave the flag
\* unchanged; the flag changes only in the step that receives the outcome
\* of the bootstrap request.
C16_AcademicLeavesSession ==
    [][/\ op' \in AcademicOps =>
             /\ messages_initialized' = messages_initialized
             /\ http' = http /\ client' = client
             /\ boots' = boots /\ booted' = booted
             /\ \A i \in DOMAIN reqs' : reqs'[i].req # Get(MESSAGES_INIT_URL)
             /\ pc' \in {"api_send", "api_wait", "idle"}
       /\ pc \in {"msg_send", "msg_wait", "att_send", "att_wait"} =>
             messages_initialized' = messages_initialized
       /\ messages_initialized' # messages_initialized =>
             (pc = "boot_wait" /\ IsBootstrap(Len(reqs)))]_vars

C16_Witness ==
    /\ op \in AcademicOps
    /\ pc = "idle"
    /\ ncalls = 1
    /\ ~messages_initialized /\ boots = 0
    /\ result.tag = "Ok"

\* C17 as stated: every error is of one of six kinds.
C17_Original ==
    result.tag = "Err" =>
        result.kind \in {"MissingEnvVar", "MissingCredentials", "Authentication",
                         "Request", "ApiError", "Parse"}

\* C17: every error returned by a constructor or an accessor is of one of
\* the seven variants of Error: the six of the taxonomy and HttpClient, which
\* only a constructor returns, before any request, when the HTTP client
\* cannot be built.  MissingEnvVar comes only from from_env,
\* MissingCredentials only from build, Authentication only from a
\* constructor, ApiError only from an accessor and Parse only from a typed
\* accessor.
C17_SevenErrorKinds ==
    result.tag = "Err" =>
        /\ result.kind \in {"MissingEnvVar", "MissingCredentials", "Authentication",
                            "HttpClient", "Request", "ApiError", "Parse"}
        /\ result.kind = "MissingEnvVar" => op = "from_env"
        /\ result.kind = "MissingCredentials" => op = "build"
        /\ result.kind = "Authentication" => (op \in ConstructionOps /\ Len(reqs) = 4)
        /\ result.kind = "HttpClient" => (op \in ConstructionOps /\ reqs = <<>> /\ ~http)
        /\ result.kind = "ApiError" => op \in AcademicOps \cup MessagingOps \cup {"attachment"}
        /\ result.kind = "Parse" => op \in AcademicOps \cup MessagingOps
        /\ result.kind = "Request" => reqs # <<>>

C17_Witness ==
    /\ op = "from_env"
    /\ pc = "failed"
    /\ result.tag = "Err"
    /\ result.kind = "HttpClient"

\* C18: for every text s, decode_message_content applied to the standard
\* base64 encoding of s returns Some(s).
C18_RoundTrip ==
    (call = "test_decode_message_content" /\ out # Pending) => out = Some(content)

C18_Witness ==
    /\ call = "test_decode_message_content"
    /\ content = <<111, 207, 128, 195, 169>>
    /\ STANDARD_encode(content) = <<98, 56, 43, 65, 119, 54, 107, 61>>
    /\ out = Some(content)

\* c is standard base64: its length is a multiple of four, it ends in at
\* most two '=', every character before them is of the alphabet, and the
\* last of these carries no bits beyond the bytes it completes.
IsStandardBase64(c) ==
    LET n == Len(c)
        npad == IF n >= 1 /\ c[n] = PAD THEN (IF n >= 2 /\ c[n - 1] = PAD THEN 2 ELSE 1) ELSE 0
        d == n - npad
    IN  /\ n % 4 = 0
        /\ \A i \in 1 .. d : value(c[i]) >= 0
        /\ npad = 1 => value(c[d]) % 4 = 0
        /\ npad = 2 => value(c[d]) % 16 = 0

\* C19: decode_message_content returns None or Some and nothing else: None
\* for every argument that is not standard base64 and for every one whose
\* decoded bytes are not UTF-8; Some only of a standard base64 argument,
\* with the well-formed text the argument is the encoding of.
C19_NoneUnlessBothSucceed ==
    (call = "decode_message_content" /\ out # Pending) =>
        /\ out.tag \in {"None", "Some"}
        /\ ~IsStandardBase64(content) => out = None
        /\ out.tag = "Some" =>
              /\ IsStandardBase64(content)
              /\ run_utf8_validation(out.value)
              /\ STANDARD_encode(out.value) = content
        /\ (out = None /\ IsStandardBase64(content)) =>
              ~run_utf8_validation(STANDARD_decode(content).value)
        /\ content = EncodedHello => out = Some(Hello)

C19_Witness ==
    /\ call = "decode_message_content"
    /\ content = <<47, 119, 61, 61>>
    /\ STANDARD_decode(content) = Some(<<255>>)
    /\ out = None

\* The text c without every span from a '<' to the next '>', the span of a
\* '<' that no '>' follows being the rest of c; a '>' outside a span is text.
RECURSIVE RemoveSpans(_)
RemoveSpans(c) ==
    IF c = <<>> THEN <<>>
    ELSE IF Head(c) # 60 THEN <<Head(c)>> \o RemoveSpans(Tail(c))
    ELSE IF \E j \in 2 .. Len(c) : c[j] = 62
    THEN LET j == CHOOSE j \in 2 .. Len(c) : c[j] = 62 /\ \A k \in 2 .. (j - 1) : c[k] # 62
         IN  RemoveSpans(SubSeq(c, j + 1, Len(c)))
    ELSE <<>>

\* The text s with each occurrence in s of an entity of the table replaced
\* by its character, in one pass over s.
RECURSIVE ReplaceOccurrences(_)
ReplaceOccurrences(s) ==
    IF s = <<>> THEN <<>>
    ELSE LET m == {k \in DOMAIN Entities :
                      /\ Len(Entities[k][1]) <= Len(s)
                      /\ SubSeq(s, 1, Len(Entities[k][1])) = Entities[k][1]}
         IN  IF m = {} THEN <<Head(s)>> \o ReplaceOccurrences(Tail(s))
             ELSE LET k == CHOOSE k \in m : TRUE
                  IN  Entities[k][2]
                      \o ReplaceOccurrences(SubSeq(s, Len(Entities[k][1]) + 1, Len(s)))

NoticeDone == call = "notice_content_to_text" /\ out # Pending

\* C20 as stated: the result is the input without its '<'..'>' spans, with
\* each occurrence of a table entity replaced, trimmed.
C20_Original ==
    NoticeDone => out = String(trim(ReplaceOccurrences(RemoveSpans(content))))

\* The character at position i of c is text: it is neither '<' nor '>' and
\* every '<' before it is followed by a '>' before it.
Kept(c, i) ==
    /\ c[i] \notin {60, 62}
    /\ \A j \in 1 .. (i - 1) : c[j] = 60 => \E k \in (j + 1) .. (i - 1) : c[k] = 62

RECURSIVE KeptFrom(_, _)
KeptFrom(c, i) ==
    IF i > Len(c) THEN <<>>
    ELSE (IF Kept(c, i) THEN <<c[i]>> ELSE <<>>) \o KeptFrom(c, i + 1)

\* C20: the result is the input without every '<', every '>' and every
\* character after a '<' that no '>' has closed yet (to the end of the input
\* when no '>' follows), then with the six replacements made one after
\* another in the order of the table, each over the whole result of the one
\* before, then trimmed; no other entity is touched, the result has no
\* white space at either end, and the documented example gives
\* "Hello World & friends".
C20_StripsDecodesTrims ==
    NoticeDone =>
        /\ out = String(trim(replace_from(KeptFrom(content, 1), Entities, 1)))
        /\ out.value # <<>> =>
              (~is_whitespace(Head(out.value)) /\ ~is_whitespace(out.value[Len(out.value)]))
        /\ (\A i \in DOMAIN content : content[i] \notin {60, 62, 32}
                /\ \A k \in DOMAIN Entities :
                      replace(content, Entities[k][1], <<>>) = content)
              => out = String(content)
        /\ content = NoticeExample => out = String(NoticeExampleText)

C20_Witness ==
    /\ NoticeDone
    /\ content = NoticeExample
    /\ out = String(NoticeExampleText)

\* The position of a '<' of c that no '>' follows, 0 if c has none: the
\* first '<' after the last '>'.
Unterminated(c) ==
    LET open == {i \in DOMAIN c : c[i] = 60 /\ \A j \in (i + 1) .. Len(c) : c[j] # 62}
    IN  IF open = {} THEN 0 ELSE CHOOSE i \in open : \A j \in open : i <= j

\* C21: when the input has a '<' with no '>' after it, the result is the
\* result for the text before that '<': no character from that '<' on is
\* kept by the scan.
C21_UnterminatedSwallowsRest ==
    (NoticeDone /\ Unterminated(content) > 0) =>
        LET i == Unterminated(content)
        IN  /\ out = notice_content_to_text(SubSeq(content, 1, i - 1))
            /\ scan(content, FALSE) = scan(SubSeq(content, 1, i - 1), FALSE)
            /\ \A j \in i .. Len(content) : ~Kept(content, j)

C21_Witness ==
    /\ NoticeDone
    /\ content = <<97, 60, 98>>
    /\ Unterminated(content) = 2
    /\ out = String(<<97>>)

\* The '>' at position i of c closes nothing: every '<' before it has been
\* closed by an earlier '>'.
Stray(c, i) ==
    /\ c[i] = 62
    /\ \A j \in 1 .. (i - 1) : c[j] = 60 => \E k \in (j + 1) .. (i - 1) : c[k] = 62

RECURSIVE WithoutStray(_, _)
WithoutStray(c, i) ==
    IF i > Len(c) THEN <<>>
    ELSE (IF Stray(c, i) THEN <<>> ELSE <<c[i]>>) \o WithoutStray(c, i + 1)

\* C29: the scan copies no '<' and no '>' of the input: a '>' that closes
\* nothing is dropped, so the result is that of the input without these '>',
\* a result holds a '<' or '>' only when the input has an entity for it, and
\* "a > b" gives "a  b".
C29_StrayCloserDropped ==
    NoticeDone =>
        /\ \A j \in DOMAIN scan(content, FALSE) : scan(content, FALSE)[j] \notin {60, 62}
        /\ out = notice_content_to_text(WithoutStray(content, 1))
        /\ (\A i \in DOMAIN content : content[i] # 38) =>
              \A j \in DOMAIN out.value : out.value[j] \notin {60, 62}
        /\ content = StrayExample => out = String(<<97, 32, 32, 98>>)

C29_Witness ==
    /\ NoticeDone
    /\ content = StrayExample
    /\ Stray(content, 3)
    /\ out = String(<<97, 32, 32, 98>>)

\* The text s after the six replacements, written out call by call.
SixReplacements(s) ==
    LET r1 == replace(s, <<38, 110, 98, 115, 112, 59>>, <<32>>)
        r2 == replace(r1, <<38, 97, 109, 112, 59>>, <<38>>)
        r3 == replace(r2, <<38, 108, 116, 59>>, <<60>>)
        r4 == replace(r3, <<38, 103, 116, 59>>, <<62>>)
        r5 == replace(r4, <<38, 113, 117, 111, 116, 59>>, <<34>>)
    IN  replace(r5, <<38, 35, 51, 57, 59>>, <<39>>)

\* C30: the result is the scanned text after the replacements of &nbsp;
\* &amp; &lt; &gt; &quot; &#39; made in this order, each over the whole
\* result of the one before, trimmed: "&amp;lt;" gives "<", "&amp;nbsp;"
\* gives "&nbsp;", and "&lt;b&gt;" gives "<b>", which no scan removes.
C30_ReplacementsChained ==
    NoticeDone =>
        /\ out = String(trim(SixReplacements(scan(content, FALSE))))
        /\ content = <<38, 97, 109, 112, 59, 108, 116, 59>> => out = String(<<60>>)
        /\ content = <<38, 97, 109, 112, 59, 110, 98, 115, 112, 59>> =>
              out = String(<<38, 110, 98, 115, 112, 59>>)
        /\ content = <<38, 108, 116, 59, 98, 38, 103, 116, 59>> => out = String(<<60, 98, 62>>)

C30_Witness ==
    /\ NoticeDone
    /\ content = <<38, 97, 109, 112, 59, 108, 116, 59>>
    /\ out = String(<<60>>)

\* C22 as stated: all requests of a handshake go to one host.
C22_Original ==
    InHandshake => \A i, j \in DOMAIN reqs : reqs[i].req.host = reqs[j].req.host

\* C22: the first three requests of a handshake go to api.librus.pl, the
\* host of the OAuth endpoints, and the fourth, the token check, goes to
\* synergia.librus.pl, the host of the API: two hosts, neither of them the
\* messages host.
C22_HandshakeHosts ==
    InHandshake =>
        \A i \in DOMAIN reqs :
            /\ i <= 3 => reqs[i].req.host = AUTH_URL.host
            /\ i = 4 => reqs[i].req.host = SYNERGIA_API_BASE.host
            /\ reqs[i].req.host \in {"api.librus.pl", "synergia.librus.pl"}
            /\ AUTH_URL.host # SYNERGIA_API_BASE.host

C22_Witness ==
    /\ InHandshake
    /\ Len(reqs) = 4
    /\ reqs[3].req.host = "api.librus.pl"
    /\ reqs[4].req.host = "synergia.librus.pl"
    /\ client

\* C23: the bootstrap request is a GET to synergia.librus.pl, not to the
\* messages host; when its send completes, with any status and whether or
\* not a body could be read, the step sets messages_initialized, returns no
\* error and goes on to the request of the accessor; only a failed send
\* leaves the flag and returns Error::Request.
C23_BootstrapStatusIgnored ==
    [][pc = "boot_wait" =>
          /\ IsBootstrap(Len(reqs))
          /\ LastReq.method = "GET"
          /\ LastReq.host = SYNERGIA_API_BASE.host /\ LastReq.host # MessagesHost
          /\ IF reqs'[Len(reqs')].state = "answered"
             THEN /\ messages_initialized'
                  /\ result' = NoResult
                  /\ pc' \in {"msg_send", "att_send"}
             ELSE /\ messages_initialized' = messages_initialized
                  /\ result' = RequestError
                  /\ pc' = "idle"]_vars

C23_Witness ==
    /\ op \in MessagingOps
    /\ pc = "msg_send"
    /\ Len(reqs) = 1 /\ IsBootstrap(1)
    /\ Answered(1) /\ reqs[1].status = 500
    /\ messages_initialized
    /\ result = NoResult

\* What a finished handshake with the request log r returns, going by the
\* transport success of its requests and the status of the fourth alone.
HandshakeResult(r) ==
    IF r[Len(r)].state = "failed" THEN RequestError
    ELSE IF r[4].status = 200 THEN Ok(<<>>)
    ELSE Authentication

\* C25: when the response to handshake request 1, 2 or 3 arrives, with any
\* status, the next request is the next thing authenticate does and nothing
\* is returned; what authenticate returns in the end is determined by
\* whether a send failed and by the status of the token-info response.
C25_EarlyStatusesIgnored ==
    [][pc = "auth_wait" =>
          /\ (step < 4 /\ reqs'[Len(reqs')].state = "answered") =>
                /\ pc' = "auth_send"
                /\ step' = step + 1
                /\ result' = NoResult
          /\ pc' # "auth_send" =>
                /\ pc' \in {"idle", "failed"}
                /\ reqs'[Len(reqs')].state = "failed" \/ Len(reqs') = 4
                /\ result' = HandshakeResult(reqs')
                /\ client' = (result'.tag = "Ok")]_vars

C25_Witness ==
    /\ InHandshake
    /\ Len(reqs) = 4
    /\ reqs[1].status = 500 /\ reqs[2].status = 404 /\ reqs[3].status = 500
    /\ reqs[4].status = 200 /\ Answered(4)
    /\ client
    /\ result = Ok(<<>>)

\* C26: a constructor that returned MissingEnvVar or MissingCredentials
\* has dispatched no request, built no HTTP client and made no client; it
\* never entered authenticate.
C26_NoRequestWithoutCredentials ==
    result.kind \in {"MissingEnvVar", "MissingCredentials"} =>
        /\ op \in {"from_env", "build"}
        /\ pc = "failed"
        /\ reqs = <<>> /\ inflight = {}
        /\ step = 0 /\ creds = <<>>
        /\ ~http /\ ~client /\ ~messages_initialized

C26_Witness ==
    /\ op = "build"
    /\ result = MissingCredentials("username")
    /\ builder.password = {"jan"}
    /\ reqs = <<>> /\ ~http /\ ~client

\* C27: a typed accessor classifies in a fixed order: a send that failed
\* or a body that could not be read gives Error::Request; otherwise a status
\* outside 200-299 gives Error::ApiError whether or not the body would
\* decode, and never Error::Parse or a value; Error::Parse and a value are
\* returned only for a response with a status in 200-299, by whether its
\* text decodes.
C27_ClassificationPrecedence ==
    (op \in AcademicOps \cup MessagingOps /\ pc = "idle") =>
        /\ recv.outcome \in {"none", "send_error", "body_error"} => result = RequestError
        /\ (recv.outcome = "response" /\ Outside2xx(recv.status)) =>
              result = ApiError(recv.status, text(recv.body))
        /\ (recv.outcome = "response" /\ ~Outside2xx(recv.status)) =>
              result = IF from_str(shape(op), text(recv.body))
                       THEN Ok(text(recv.body)) ELSE ParseError(text(recv.body))
        /\ result.kind = "Parse" => (recv.outcome = "response" /\ ~Outside2xx(recv.status))

C27_Witness ==
    /\ op = "homeworks"
    /\ pc = "idle"
    /\ recv.outcome = "response" /\ recv.status = 500
    /\ recv.body = <<93, 91>>
    /\ ~from_str(shape(op), text(recv.body))
    /\ result = ApiError(500, <<93, 91>>)

\* The requests an accessor call can dispatch; none is built from a credential.
AccessorRequests ==
    {Get(MESSAGES_INIT_URL)}
    \cup {Request("GET", SYNERGIA_API_BASE, endpoint(o), {<<"Content-Type", "application/json">>},
                  <<>>) : o \in AcademicOps}
    \cup {Request("GET", MESSAGES_API_BASE, endpoint(o), {}, <<>>) :
              o \in MessagingOps \cup {"attachment"}}

\* C28: every request a handshake dispatches other than the second is the
\* request any other password (and username) would give; the second differs
\* between two passwords in the pass field of its form only; what a step does
\* next is a function of the outcome, so two handshakes given the same
\* responses dispatch the same other requests; once authenticate has
\* returned, nothing that is kept holds the username or the password, and the
\* bootstrap and accessor requests are fixed requests.
C28_PasswordOnlyInLoginForm ==
    [][/\ Len(reqs') = Len(reqs) + 1 =>
             LET k == Len(reqs')
                 r == reqs'[k].req
             IN  IF op' \in ConstructionOps
                 THEN /\ Len(creds) = 2 /\ creds' = creds
                      /\ k # 2 => \A u, p \in Credentials : r = HandshakeRequest(k, u, p)
                      /\ k = 2 =>
                            /\ r.form = <<(<<"action", "login">>), <<"login", creds[1]>>,
                                          <<"pass", creds[2]>>>>
                            /\ \A p \in Credentials :
                                  /\ [r EXCEPT !.form = <<>>]
                                       = [HandshakeRequest(2, creds[1], p) EXCEPT !.form = <<>>]
                                  /\ SubSeq(r.form, 1, 2)
                                       = SubSeq(HandshakeRequest(2, creds[1], p).form, 1, 2)
                 ELSE r \in AccessorRequests
       /\ pc' \in {"idle", "failed"} =>
             /\ creds' = <<>>
             /\ pc' = "idle" => (builder' = [username |-> {}, password |-> {}] /\ env' = NoEnv)
       /\ pc = "auth_wait" =>
             LET last == reqs'[Len(reqs')]
             IN  <<pc', step', client'>> =
                    IF last.state = "failed" THEN <<"failed", step, FALSE>>
                    ELSE IF step < 4 THEN <<"auth_send", step + 1, FALSE>>
                    ELSE IF last.status = 200 THEN <<"idle", step, TRUE>>
                    ELSE <<"failed", step, FALSE>>]_vars

C28_Witness ==
    /\ InHandshake
    /\ pc = "auth_wait"
    /\ creds = <<"", "jan">>
    /\ Len(reqs) = 3
    /\ reqs[2].req.form[3] = <<"pass", "jan">>
    /\ reqs[3].req = Get(AUTH_GRANT_URL)

\* Task t is in its first messaging call, between the check that found
\* messages_initialized false and the assignment.
BetweenCheckAndSet(t) ==
    /\ tasks[t].pc \in {"boot_send", "boot_wait"}
    /\ ~messages_initialized

====
